---- MODULE Spec2Model ----
(***************************************************************************)
(* A model of textrender (src/src/lib.rs): five detours on the host's      *)
(* debug-text routines push DrawCommands into TEXT_RENDER_QUEUE from host  *)
(* threads; DebugTextRender::render drains the queue once per frame on the *)
(* render thread, keeping text_scale and font_size.                        *)
(***************************************************************************)
EXTENDS Integers, Sequences, FiniteSets, TLC

(***************************************************************************)
(* Bounds of the model.  QueueCap stands for the 10000 slots of            *)
(* ArrayQueue::new(10000) (lib.rs:31), scaled down so that a full queue is *)
(* reached; MaxPush caps the number of force_push calls that are tracked   *)
(* with an arrival number; NumThreads is the number of host threads.       *)
(***************************************************************************)
QueueCap == 2
MaxPush == 3
NumThreads == 2
MaxUnits == 3

Threads == 1..NumThreads

(***************************************************************************)
(* f32.  A value is a pair <<n, d>>: d > 0 is the rational n/d in lowest   *)
(* terms, <<1, 0>> is +inf, <<-1, 0>> is -inf and <<0, 0>> is NaN.  The    *)
(* operators follow IEEE 754 on the special values; rounding of finite     *)
(* results and the sign of zero are not modelled.                          *)
(***************************************************************************)
NaN == <<0, 0>>
PInf == <<1, 0>>
NInf == <<-1, 0>>

\* Op(x, y) with each argument evaluated once, as a call by value does
Strict1(Op(_), x) == CHOOSE r \in { Op(a) : a \in { x } } : TRUE
Strict2(Op(_, _), x, y) == CHOOSE r \in { Op(a, b) : a \in { x }, b \in { y } } : TRUE

Abs(i) == IF i < 0 THEN -i ELSE i

RECURSIVE GcdV(_, _)
GcdV(a, b) == IF b = 0 THEN a ELSE Strict2(GcdV, b, a % b)
Gcd(a, b) == Strict2(GcdV, a, b)

\* n/d in lowest terms with a positive denominator (d # 0)
NormV(n, d) ==
    LET s == IF d < 0 THEN -1 ELSE 1
        g == Gcd(Abs(n), Abs(d))
    IN  <<(s * n) \div g, (s * d) \div g>>
Norm(n, d) == Strict2(NormV, n, d)

F(i) == <<i, 1>>

IsNaN(a) == a = NaN
IsInf(a) == a[2] = 0 /\ a[1] # 0
IsFinite(a) == a[2] # 0
Sign(a) == IF a[1] > 0 THEN 1 ELSE IF a[1] < 0 THEN -1 ELSE 0

\* a * b
MulV(a, b) ==
    IF IsNaN(a) \/ IsNaN(b) THEN NaN
    ELSE IF IsInf(a) \/ IsInf(b)
         THEN <<Sign(a) * Sign(b), 0>>
         ELSE Norm(a[1] * b[1], a[2] * b[2])
FMul(a, b) == Strict2(MulV, a, b)

\* a / b
DivV(a, b) ==
    IF IsNaN(a) \/ IsNaN(b) THEN NaN
    ELSE IF IsInf(a)
         THEN IF IsInf(b) THEN NaN
              ELSE <<Sign(a) * (IF Sign(b) < 0 THEN -1 ELSE 1), 0>>
         ELSE IF IsInf(b) THEN F(0)
              ELSE IF b[1] = 0 THEN <<Sign(a), 0>>
                   ELSE Norm(a[1] * b[2], a[2] * b[1])
FDiv(a, b) == Strict2(DivV, a, b)

\* a + b
AddV(a, b) ==
    IF IsNaN(a) \/ IsNaN(b) THEN NaN
    ELSE IF IsInf(a)
         THEN IF IsInf(b) /\ a # b THEN NaN ELSE a
         ELSE IF IsInf(b) THEN b
              ELSE Norm(a[1] * b[2] + b[1] * a[2], a[2] * b[2])
FAdd(a, b) == Strict2(AddV, a, b)

\* the quotient n/d truncated towards zero (d # 0)
Trunc(n, d) == (IF (n < 0) # (d < 0) THEN -1 ELSE 1) * (Abs(n) \div Abs(d))

\* a % b on f32: the remainder of the division truncated towards zero
RemV(a, b) ==
    IF IsNaN(a) \/ IsNaN(b) \/ IsInf(a) THEN NaN
    ELSE IF IsInf(b) THEN a
         ELSE IF b[1] = 0 THEN NaN
              ELSE FAdd(a, FMul(F(-Strict2(Trunc, a[1] * b[2], a[2] * b[1])), b))
FRem(a, b) == Strict2(RemV, a, b)

\* a < b
LtV(a, b) ==
    IF IsNaN(a) \/ IsNaN(b) THEN FALSE
    ELSE IF IsInf(a) /\ IsInf(b) THEN a = NInf /\ b = PInf
         ELSE a[1] * b[2] < b[1] * a[2]
FLt(a, b) == Strict2(LtV, a, b)

\* a != b
NeV(a, b) == IsNaN(a) \/ IsNaN(b) \/ a # b
FNe(a, b) == Strict2(NeV, a, b)

(***************************************************************************)
(* DrawCommand (lib.rs:36-41).  A String is the sequence of its chars.     *)
(***************************************************************************)
Text(text, x, y) == <<"Text", text, x, y>>
SetFontSizeCmd(size) == <<"SetFontSize", size>>
SetTextScaleCmd(width, height, size) == <<"SetTextScale", width, height, size>>
ResetTextScaleCmd == <<"ResetTextScale">>

BASE_IMGUI_FONT_SIZE_PX == F(13)

\* "?EncodingError?"
EncodingError == <<63, 69, 110, 99, 111, 100, 105, 110, 103, 69, 114, 114, 111, 114, 63>>

(***************************************************************************)
(* u16_ptr_to_string (lib.rs:43-50).  The pointer is modelled by the       *)
(* memory that starts at it, a sequence of code units holding a zero.      *)
(***************************************************************************)
IsHighSurrogate(u) == u >= 55296 /\ u <= 56319
IsLowSurrogate(u) == u >= 56320 /\ u <= 57343

\* String::from_utf16: [ok, val], val the chars when ok
RECURSIVE from_utf16(_)
from_utf16(s) ==
    IF s = <<>> THEN [ok |-> TRUE, val |-> <<>>]
    ELSE IF IsHighSurrogate(s[1])
         THEN IF Len(s) >= 2 /\ IsLowSurrogate(s[2])
              THEN LET r == from_utf16(SubSeq(s, 3, Len(s)))
                       c == 65536 + (s[1] - 55296) * 1024 + (s[2] - 56320)
                   IN  [ok |-> r.ok, val |-> IF r.ok THEN <<c>> \o r.val ELSE <<>>]
              ELSE [ok |-> FALSE, val |-> <<>>]
         ELSE IF IsLowSurrogate(s[1])
              THEN [ok |-> FALSE, val |-> <<>>]
              ELSE LET r == from_utf16(Tail(s))
                   IN  [ok |-> r.ok, val |-> IF r.ok THEN <<s[1]>> \o r.val ELSE <<>>]

\* a decoder that drops the code units it cannot pair (a lossy decoding)
RECURSIVE from_utf16_skipping(_)
from_utf16_skipping(s) ==
    IF s = <<>> THEN <<>>
    ELSE IF IsHighSurrogate(s[1]) /\ Len(s) >= 2 /\ IsLowSurrogate(s[2])
         THEN <<65536 + (s[1] - 55296) * 1024 + (s[2] - 56320)>>
                \o from_utf16_skipping(SubSeq(s, 3, Len(s)))
         ELSE IF IsHighSurrogate(s[1]) \/ IsLowSurrogate(s[1])
              THEN from_utf16_skipping(Tail(s))
              ELSE <<s[1]>> \o from_utf16_skipping(Tail(s))

u16_ptr_to_string_lossy(ptr) ==
    LET len == Cardinality({i \in 1..Len(ptr) : \A j \in 1..i : ptr[j] # 0})
    IN  from_utf16_skipping(SubSeq(ptr, 1, len))

u16_ptr_to_string(ptr) ==
    LET len == Cardinality({i \in 1..Len(ptr) : \A j \in 1..i : ptr[j] # 0})
        slice == SubSeq(ptr, 1, len)
        r == from_utf16(slice)
    IN  IF r.ok THEN r.val ELSE EncodingError

(***************************************************************************)
(* The host's CSWindowImp singleton as get_instance returns it: st is      *)
(* "some" (Ok(Some(window))), "none" (Ok(None)) or "err" (Err).            *)
(***************************************************************************)
Window(st, ty, sw, sh, ww, wh, fw, fh, bw, bh) ==
    [st |-> st, window_type |-> ty,
     screen_width |-> sw, screen_height |-> sh,
     windowed_screen_width |-> ww, windowed_screen_height |-> wh,
     fullscreen_width |-> fw, fullscreen_height |-> fh,
     borderless_screen_width |-> bw, borderless_screen_height |-> bh]

NoWindow(st) == Window(st, "Windowed", 0, 0, 0, 0, 0, 0, 0, 0)

\* another fallback geometry
get_screen_size_720p(window) ==
    IF window.st = "some"
    THEN <<F(window.screen_width), F(window.screen_height)>>
    ELSE <<F(1280), F(720)>>

\* lib.rs:105-111
get_screen_size(window) ==
    IF window.st = "some"
    THEN <<F(window.screen_width), F(window.screen_height)>>
    ELSE <<F(1920), F(1080)>>

\* lib.rs:113-132
window_size(window) ==
    IF window.st = "some"
    THEN CASE window.window_type = "Windowed" ->
                <<F(window.windowed_screen_width), F(window.windowed_screen_height)>>
           [] window.window_type = "Fullscreen" ->
                <<F(window.fullscreen_width), F(window.fullscreen_height)>>
           [] window.window_type = "Borderless" ->
                <<F(window.borderless_screen_width), F(window.borderless_screen_height)>>
    ELSE <<F(1920), F(1080)>>

\* a reset that floors the ratios at 0.8, as get_aspect_ratios does
reset_size_floored(window) ==
    LET window_sz == window_size(window)
        screen_sz == get_screen_size(window)
        aspect_w == FDiv(screen_sz[1], window_sz[1])
        aspect_h == FDiv(screen_sz[2], window_sz[2])
    IN  <<IF FLt(aspect_w, Norm(4, 5)) THEN Norm(4, 5) ELSE aspect_w,
          IF FLt(aspect_h, Norm(4, 5)) THEN Norm(4, 5) ELSE aspect_h>>

\* lib.rs:83-89: the text_scale that reset_size stores
reset_size(window) ==
    LET window_sz == window_size(window)
        screen_sz == get_screen_size(window)
        aspect_w == FDiv(screen_sz[1], window_sz[1])
        aspect_h == FDiv(screen_sz[2], window_sz[2])
    IN  <<aspect_w, aspect_h>>

\* the 0.8 of lib.rs:96-101
MinAspect == Norm(4, 5)

\* the comparison turned round: 0.8 as a ceiling
ClampAspectCeiling(aspect) == IF FLt(MinAspect, aspect) THEN MinAspect ELSE aspect

\* lib.rs:96-101, one axis
ClampAspectV(aspect) == IF FLt(aspect, MinAspect) THEN MinAspect ELSE aspect
ClampAspect(aspect) == Strict1(ClampAspectV, aspect)

\* lib.rs:91-103
get_aspect_ratios(window) ==
    LET window_sz == window_size(window)
        screen_sz == get_screen_size(window)
        aspect_w == FDiv(screen_sz[1], window_sz[1])
        aspect_h == FDiv(screen_sz[2], window_sz[2])
    IN  <<ClampAspect(aspect_w), ClampAspect(aspect_h)>>

\* lib.rs:176-177: (v % size + size) % size
NormalizeCoord(v, size) == FRem(FAdd(FRem(v, size), size), size)

\* DebugTextRender::new (lib.rs:76-81)
new == [text_scale |-> <<F(1), F(1)>>, font_size |-> F(24)]

(***************************************************************************)
(* Inputs: what the host passes to the hooked routines, and the states of  *)
(* its window object.                                                      *)
(***************************************************************************)
\* (position, text) of a text draw: HavokPosition .0 and .1, wchar_t buffer
TextArgs ==
    { [x |-> F(-10), y |-> F(2000), text |-> <<65, 0>>],
      [x |-> F(5),   y |-> F(5),    text |-> <<55296, 65, 0>>] }

FontSizes == { F(12), F(32) }

\* (textPosWidthScale, textPosHeightScale, fontSize)
TextScaleArgs == { <<F(2), Norm(1, 2), F(20)>> }

\* (position, *font_size_ptr, text) of a sized text draw
SizedTextArgs ==
    { [x |-> F(-10), y |-> F(2000), size |-> F(12), text |-> <<65, 0>>],
      [x |-> F(5),   y |-> F(5),    size |-> F(32), text |-> <<55296, 65, 0>>] }

\* the wide strings of up to MaxUnits code units, each followed by its
\* terminating zero: letters, zeros and surrogates of both kinds
CodeUnits == { 0, 65, 55296, 56320 }

Buffers ==
    UNION { { Append(b, 0) : b \in [1..n -> CodeUnits] } : n \in 1..MaxUnits }

\* a text draw, sized or not, of each of these strings
WideTextArgs ==
    { [x |-> F(5), y |-> F(5), size |-> F(12), text |-> b] : b \in Buffers }

WindowTypes == { "Windowed", "Fullscreen", "Borderless" }

\* a 1920x1080 screen; the window is 2560x1080 windowed (ratios 3/4 and 1),
\* 1280x720 fullscreen (3/2 and 3/2) and 960x0 borderless (2, and a zero height)
Windows ==
    { NoWindow("none"), NoWindow("err") }
    \cup { Window("some", ty, 1920, 1080, 2560, 1080, 1280, 720, 960, 0)
             : ty \in WindowTypes }

(***************************************************************************)
(* State.                                                                  *)
(*   TEXT_RENDER_QUEUE  the ArrayQueue, oldest first; an entry is a        *)
(*                      DrawCommand with its arrival number                *)
(*   text_scale, font_size   the DebugTextRender fields                    *)
(*   ui          the last window built on the imgui Ui                     *)
(*   hostWindow  the host's CSWindowImp singleton                          *)
(*   pc, local   per host thread: where it is in a hook, and its locals    *)
(*   calls       per host thread: the calls of original host routines made *)
(*               by the callback it is in, in order                        *)
(*   renderPc    the render thread: "idle" or inside render ("drain")      *)
(*   initPc      init(): the number of detours enabled, 6 once the overlay *)
(*               thread is spawned                                         *)
(*   initStage   init(): what it does next for detour initPc + 1:          *)
(*               "install" (rva_to_va and initialize) or "enable"; "panic" *)
(*               when an unwrap has panicked                               *)
(*   process     "running", or "aborted" after std::process::abort         *)
(*   overlayPc   the overlay thread: "unspawned", "waiting" (in            *)
(*               wait_for_system_init) or "running" (Hudhook applied)      *)
(* History, kept while track holds:                                        *)
(*   pushed      the number of force_push calls so far                     *)
(*   evicted     arrival numbers of the entries force_push replaced        *)
(*   log         arrival numbers of the popped entries, in pop order       *)
(*   tickSnap    arrival numbers queued when the current tick began        *)
(*   tickStart   Len(log) when the current tick began                      *)
(***************************************************************************)
VARIABLES TEXT_RENDER_QUEUE, text_scale, font_size, ui, hostWindow,
          pc, local, calls, renderPc, initPc, initStage, overlayPc, process,
          track, pushed, evicted, log, tickSnap, tickStart

vars == <<TEXT_RENDER_QUEUE, text_scale, font_size, ui, hostWindow,
          pc, local, calls, renderPc, initPc, initStage, overlayPc, process,
          track, pushed, evicted, log, tickSnap, tickStart>>

overlayVars == <<text_scale, font_size, ui, renderPc, tickSnap, tickStart, log>>
initVars == <<initPc, initStage, overlayPc>>

NoLocal == <<>>
NoUi == [name |-> "", size |-> <<F(0), F(0)>>, position |-> <<F(0), F(0)>>,
         font_scale |-> F(1), text |-> <<>>]

\* lib.rs:155-165: the "_" window
Placeholder == [name |-> "_", size |-> <<F(1), F(1)>>, position |-> <<F(0), F(0)>>,
                font_scale |-> F(1), text |-> <<46>>]

Ids(q) == { q[i].id : i \in 1..Len(q) }

(***************************************************************************)
(* ArrayQueue (crossbeam_queue), by its contract: force_push replaces the  *)
(* oldest element when the queue is full, pop takes the oldest.  Both are  *)
(* linearizable, so each is one step.                                      *)
(***************************************************************************)
\* ArrayQueue::push in place of force_push: a full queue rejects the value
push_rejecting(q, v) == IF Len(q) = QueueCap THEN q ELSE Append(q, v)

force_push(q, v) ==
    IF Len(q) = QueueCap THEN Append(Tail(q), v) ELSE Append(q, v)

\* the element force_push returns (replaces), as a set of arrival numbers
Replaced(q) == IF Len(q) = QueueCap THEN { Head(q).id } ELSE {}

\* a pop that takes the newest element
pop_newest(q) == [event |-> q[Len(q)], rest |-> SubSeq(q, 1, Len(q) - 1)]

\* a pop that returns the oldest element and leaves it in the queue
pop_keeping(q) == [event |-> Head(q), rest |-> q]

\* pop on a queue that is not empty: the event returned and the queue left
pop(q) == [event |-> Head(q), rest |-> Tail(q)]

TypeOK ==
    /\ Len(TEXT_RENDER_QUEUE) \in 0..QueueCap
    /\ renderPc \in { "idle", "drain" }
    /\ initPc \in 0..6
    /\ overlayPc \in { "unspawned", "waiting", "running" }
    /\ hostWindow \in Windows
    /\ pc \in [Threads -> { "idle", "sfs_push", "sts_push", "rts_push", "dtws_text",
                              "panic" }]
    /\ initStage \in { "install", "enable", "panic" }
    /\ process \in { "running", "aborted" }
    /\ \A t \in Threads : Len(calls[t]) <= 1
    /\ track \in BOOLEAN

InitWith(tr) ==
    /\ TEXT_RENDER_QUEUE = <<>>
    /\ text_scale = new.text_scale
    /\ font_size = new.font_size
    /\ ui = NoUi
    /\ hostWindow \in Windows
    /\ pc = [t \in Threads |-> "idle"]
    /\ local = [t \in Threads |-> NoLocal]
    /\ calls = [t \in Threads |-> <<>>]
    /\ renderPc = "idle"
    /\ initPc = 0
    /\ initStage = "install"
    /\ process = "running"
    /\ overlayPc = "unspawned"
    /\ track = tr
    /\ pushed = 0
    /\ evicted = {}
    /\ log = <<>>
    /\ tickSnap = {}
    /\ tickStart = 0

Init == InitWith(TRUE)

(***************************************************************************)
(* init (lib.rs:234-343): the five detours are initialized and enabled one *)
(* after the other, then the overlay thread is spawned.                    *)
(***************************************************************************)
DRAW_TEXT_RENDER_REQUEST == 1
SET_FONT_SIZE == 2
SET_TEXT_SCALE == 3
RESET_TEXT_SCALE == 4
DRAW_TEXT_WITH_SIZE == 5

Enabled(hook) == initPc >= hook

\* the detour is initialized: its closure is stored and its trampoline built
Installed(hook) == initPc >= hook \/ (initPc = hook - 1 /\ initStage = "enable")

\* lib.rs:239-329: rva_to_va(..).unwrap() and .initialize(..).unwrap() of the
\* next detour
InstallHook ==
    /\ initPc < 5
    /\ initStage = "install"
    /\ initStage' = "enable"
    /\ UNCHANGED <<TEXT_RENDER_QUEUE, hostWindow, process, pc, local, calls, initPc,
                   overlayPc, track, pushed, evicted>>
    /\ UNCHANGED overlayVars

\* lib.rs:255-256, 269-270, 287-288, 301-302, 327-328: .enable().unwrap()
EnableHook ==
    /\ initPc < 5
    /\ initStage = "enable"
    /\ initPc' = initPc + 1
    /\ initStage' = "install"
    /\ UNCHANGED <<TEXT_RENDER_QUEUE, hostWindow, process, pc, local, calls,
                   overlayPc, track, pushed, evicted>>
    /\ UNCHANGED overlayVars

\* lib.rs:331: std::thread::spawn
SpawnOverlay ==
    /\ initPc = 5
    /\ initStage = "install"
    /\ initPc' = 6
    /\ UNCHANGED initStage
    /\ overlayPc' = "waiting"
    /\ UNCHANGED <<TEXT_RENDER_QUEUE, hostWindow, process, pc, local, calls, track, pushed, evicted>>
    /\ UNCHANGED overlayVars

\* an overlay that starts from an empty queue
OverlayStartClearing ==
    /\ overlayPc = "waiting"
    /\ overlayPc' = "running"
    /\ text_scale' = new.text_scale
    /\ font_size' = new.font_size
    /\ TEXT_RENDER_QUEUE' = <<>>
    /\ UNCHANGED <<ui, hostWindow, process, pc, local, calls, renderPc, initPc, initStage,
                   track, pushed, evicted, log, tickSnap, tickStart>>

\* lib.rs:333-338: wait_for_system_init returns, Hudhook is applied with
\* DebugTextRender::new()
OverlayStart ==
    /\ overlayPc = "waiting"
    /\ overlayPc' = "running"
    /\ text_scale' = new.text_scale
    /\ font_size' = new.font_size
    /\ UNCHANGED <<TEXT_RENDER_QUEUE, ui, hostWindow, process, pc, local, calls, renderPc, initPc, initStage,
                   track, pushed, evicted, log, tickSnap, tickStart>>

\* the host changes its window object (display mode, resolution, creation)
HostSetWindow ==
    /\ \E w \in Windows \ { hostWindow } : hostWindow' = w
    /\ UNCHANGED <<TEXT_RENDER_QUEUE, process, pc, local, calls, track, pushed, evicted>>
    /\ UNCHANGED overlayVars
    /\ UNCHANGED initVars

(***************************************************************************)
(* The hook callbacks (lib.rs:246-324), run by the host threads.  A        *)
(* callback with one force_push is one step; DrawTextWithSize, with two,   *)
(* is two steps, and other threads may run between them.                   *)
(***************************************************************************)
Pending == Cardinality({ t \in Threads : pc[t] \notin { "idle", "panic" } })

\* the tracked pushes are capped: a callback starts only if all its pushes fit
CanPush(n) == track => pushed + Pending + n <= MaxPush

\* no sized draw made this entry
NoSize == <<>>

\* a queue entry: the command, its arrival number and, for the Text of a
\* sized draw, the font size of that draw
Entry(cmd, sized) ==
    [id |-> IF track THEN pushed + 1 ELSE 0, cmd |-> cmd,
     sized |-> IF track THEN sized ELSE NoSize]

\* TEXT_RENDER_QUEUE.force_push(cmd)
Push(cmd, sized) ==
    /\ TEXT_RENDER_QUEUE' = force_push(TEXT_RENDER_QUEUE, Entry(cmd, sized))
    /\ pushed' = IF track THEN pushed + 1 ELSE pushed
    /\ evicted' = IF track THEN evicted \cup Replaced(TEXT_RENDER_QUEUE) ELSE evicted

\* Detour.call(args): the original host routine runs
CallOriginal(t, routine, args) ==
    calls' = [calls EXCEPT ![t] = Append(calls[t], <<routine, args>>)]

\* lib.rs:246-252, called with position and text pointer a
DrawTextRenderRequestCall(t, a) ==
    /\ Enabled(DRAW_TEXT_RENDER_REQUEST)
    /\ pc[t] = "idle"
    /\ CanPush(1)
    /\ LET text_str == u16_ptr_to_string(a.text)
       IN  Push(Text(text_str, a.x, a.y), NoSize)
    /\ UNCHANGED <<hostWindow, process, pc, local, calls, track>>
    /\ UNCHANGED overlayVars
    /\ UNCHANGED initVars

DrawTextRenderRequestHook(t) == \E a \in TextArgs : DrawTextRenderRequestCall(t, a)

\* a callback that enqueues without forwarding to the original
SetFontSizeHookNoForward(t) ==
    /\ Enabled(SET_FONT_SIZE)
    /\ pc[t] = "idle"
    /\ CanPush(1)
    /\ \E size \in FontSizes : local' = [local EXCEPT ![t] = [font_size |-> size]]
    /\ pc' = [pc EXCEPT ![t] = "sfs_push"]
    /\ UNCHANGED <<TEXT_RENDER_QUEUE, hostWindow, process, calls, track, pushed, evicted>>
    /\ UNCHANGED overlayVars
    /\ UNCHANGED initVars

\* lib.rs:263-264: the callback is entered and SetFontSize.call runs the
\* host's routine
SetFontSizeHook(t) ==
    /\ Enabled(SET_FONT_SIZE)
    /\ pc[t] = "idle"
    /\ CanPush(1)
    /\ \E size \in FontSizes :
         /\ local' = [local EXCEPT ![t] = [font_size |-> size]]
         /\ CallOriginal(t, "SetFontSize", <<size>>)
    /\ pc' = [pc EXCEPT ![t] = "sfs_push"]
    /\ UNCHANGED <<TEXT_RENDER_QUEUE, hostWindow, process, track, pushed, evicted>>
    /\ UNCHANGED overlayVars
    /\ UNCHANGED initVars

\* lib.rs:265-266: the force_push and the return
SetFontSizePush(t) ==
    /\ pc[t] = "sfs_push"
    /\ Push(SetFontSizeCmd(local[t].font_size), NoSize)
    /\ pc' = [pc EXCEPT ![t] = "idle"]
    /\ local' = [local EXCEPT ![t] = NoLocal]
    /\ calls' = [calls EXCEPT ![t] = <<>>]
    /\ UNCHANGED <<hostWindow, process, track>>
    /\ UNCHANGED overlayVars
    /\ UNCHANGED initVars

\* lib.rs:277-278
SetTextScaleHook(t) ==
    /\ Enabled(SET_TEXT_SCALE)
    /\ pc[t] = "idle"
    /\ CanPush(1)
    /\ \E a \in TextScaleArgs :
         /\ local' = [local EXCEPT ![t] =
                        [width_scale |-> a[1], height_scale |-> a[2], font_size |-> a[3]]]
         /\ CallOriginal(t, "SetTextScale", a)
    /\ pc' = [pc EXCEPT ![t] = "sts_push"]
    /\ UNCHANGED <<TEXT_RENDER_QUEUE, hostWindow, process, track, pushed, evicted>>
    /\ UNCHANGED overlayVars
    /\ UNCHANGED initVars

\* lib.rs:279-284
SetTextScalePush(t) ==
    /\ pc[t] = "sts_push"
    /\ Push(SetTextScaleCmd(local[t].width_scale, local[t].height_scale,
                            local[t].font_size), NoSize)
    /\ pc' = [pc EXCEPT ![t] = "idle"]
    /\ local' = [local EXCEPT ![t] = NoLocal]
    /\ calls' = [calls EXCEPT ![t] = <<>>]
    /\ UNCHANGED <<hostWindow, process, track>>
    /\ UNCHANGED overlayVars
    /\ UNCHANGED initVars

\* lib.rs:295-296
ResetTextScaleHook(t) ==
    /\ Enabled(RESET_TEXT_SCALE)
    /\ pc[t] = "idle"
    /\ CanPush(1)
    /\ CallOriginal(t, "ResetTextScale", <<>>)
    /\ pc' = [pc EXCEPT ![t] = "rts_push"]
    /\ UNCHANGED <<TEXT_RENDER_QUEUE, hostWindow, process, local, track, pushed, evicted>>
    /\ UNCHANGED overlayVars
    /\ UNCHANGED initVars

\* lib.rs:297-298
ResetTextScalePush(t) ==
    /\ pc[t] = "rts_push"
    /\ Push(ResetTextScaleCmd, NoSize)
    /\ pc' = [pc EXCEPT ![t] = "idle"]
    /\ calls' = [calls EXCEPT ![t] = <<>>]
    /\ UNCHANGED <<hostWindow, process, local, track>>
    /\ UNCHANGED overlayVars
    /\ UNCHANGED initVars

\* the sized draw with its two force_push calls in the other order
DrawTextWithSizeHookTextFirst(t) ==
    /\ Enabled(DRAW_TEXT_WITH_SIZE)
    /\ pc[t] = "idle"
    /\ CanPush(2)
    /\ \E a \in SizedTextArgs :
         LET text_str == u16_ptr_to_string(a.text)
         IN  /\ Push(Text(text_str, a.x, a.y), a.size)
             /\ local' = [local EXCEPT ![t] =
                            [text_str |-> text_str, x |-> a.x, y |-> a.y,
                             font_size |-> a.size]]
    /\ pc' = [pc EXCEPT ![t] = "dtws_text"]
    /\ UNCHANGED <<hostWindow, process, calls, track>>
    /\ UNCHANGED overlayVars
    /\ UNCHANGED initVars

\* lib.rs:312-321, called with position, size pointer and text pointer a: up
\* to and including the first force_push
DrawTextWithSizeCall(t, a) ==
    /\ Enabled(DRAW_TEXT_WITH_SIZE)
    /\ pc[t] = "idle"
    /\ CanPush(2)
    /\ LET text_str == u16_ptr_to_string(a.text)
           font_size_l == a.size
       IN  /\ Push(SetFontSizeCmd(font_size_l), NoSize)
           /\ local' = [local EXCEPT ![t] =
                          [text_str |-> text_str, x |-> a.x, y |-> a.y,
                           font_size |-> font_size_l]]
    /\ pc' = [pc EXCEPT ![t] = "dtws_text"]
    /\ UNCHANGED <<hostWindow, process, calls, track>>
    /\ UNCHANGED overlayVars
    /\ UNCHANGED initVars

DrawTextWithSizeHook(t) == \E a \in SizedTextArgs : DrawTextWithSizeCall(t, a)

\* lib.rs:323-324: the second force_push and the return
DrawTextWithSizeText(t) ==
    /\ pc[t] = "dtws_text"
    /\ Push(Text(local[t].text_str, local[t].x, local[t].y), local[t].font_size)
    /\ pc' = [pc EXCEPT ![t] = "idle"]
    /\ local' = [local EXCEPT ![t] = NoLocal]
    /\ UNCHANGED <<hostWindow, process, calls, track>>
    /\ UNCHANGED overlayVars
    /\ UNCHANGED initVars

(***************************************************************************)
(* DebugTextRender::render (lib.rs:153-231), run by the render thread once *)
(* the overlay is applied.  Each pop with the arm it selects is one step.  *)
(***************************************************************************)
\* lib.rs:172-201: the window the Text arm builds
TextWindow(text, x, y, scale, fsize, w) ==
    LET scaled_x == FMul(x, scale[1])
        scaled_y == FMul(y, scale[2])
        window_sz == get_screen_size(w)
    IN  [name |-> "text_window",
         size |-> get_screen_size(w),
         position |-> <<NormalizeCoord(scaled_x, window_sz[1]),
                        NormalizeCoord(scaled_y, window_sz[2])>>,
         font_scale |-> FDiv(fsize, BASE_IMGUI_FONT_SIZE_PX),
         text |-> text]

\* lib.rs:216-222: the text_scale the SetTextScale arm leaves
ScaledTextScale(width, height, scale, w) ==
    LET aspect == get_aspect_ratios(w)
        width_scale == FMul(width, aspect[1])
        height_scale == FMul(height, aspect[2])
    IN  IF FNe(width_scale, scale[1]) \/ FNe(height_scale, scale[2])
        THEN <<width_scale, height_scale>>
        ELSE scale

Front == pop(TEXT_RENDER_QUEUE).event

\* a render that goes to its loop without the placeholder window
RenderBeginNoPlaceholder ==
    /\ overlayPc = "running"
    /\ renderPc = "idle"
    /\ renderPc' = "drain"
    /\ tickSnap' = IF track THEN Ids(TEXT_RENDER_QUEUE) ELSE {}
    /\ tickStart' = Len(log)
    /\ UNCHANGED <<TEXT_RENDER_QUEUE, text_scale, font_size, ui, hostWindow, process,
                   pc, local, calls, track, pushed, evicted, log>>
    /\ UNCHANGED initVars

\* lib.rs:153-165
RenderBegin ==
    /\ overlayPc = "running"
    /\ renderPc = "idle"
    /\ renderPc' = "drain"
    /\ ui' = Placeholder
    /\ tickSnap' = IF track THEN Ids(TEXT_RENDER_QUEUE) ELSE {}
    /\ tickStart' = Len(log)
    /\ UNCHANGED <<TEXT_RENDER_QUEUE, text_scale, font_size, hostWindow, process, pc, local, calls,
                   track, pushed, evicted, log>>
    /\ UNCHANGED initVars

\* lib.rs:167: pop returns Some(event)
Popped(kind) ==
    /\ renderPc = "drain"
    /\ TEXT_RENDER_QUEUE # <<>>
    /\ Front.cmd[1] = kind
    /\ TEXT_RENDER_QUEUE' = pop(TEXT_RENDER_QUEUE).rest
    /\ log' = IF track THEN Append(log, Front.id) ELSE log
    /\ UNCHANGED <<hostWindow, process, pc, local, calls, renderPc, track, pushed, evicted,
                   tickSnap, tickStart>>
    /\ UNCHANGED initVars

\* a Text arm that stores the font scale it computed
RenderTextStoringScale ==
    /\ Popped("Text")
    /\ ui' = TextWindow(Front.cmd[2], Front.cmd[3], Front.cmd[4],
                        text_scale, font_size, hostWindow)
    /\ font_size' = FDiv(font_size, BASE_IMGUI_FONT_SIZE_PX)
    /\ UNCHANGED text_scale

\* lib.rs:169-202
RenderText ==
    /\ Popped("Text")
    /\ ui' = TextWindow(Front.cmd[2], Front.cmd[3], Front.cmd[4],
                        text_scale, font_size, hostWindow)
    /\ UNCHANGED <<text_scale, font_size>>

\* lib.rs:203-206
RenderSetFontSize ==
    /\ Popped("SetFontSize")
    /\ font_size' = Front.cmd[2]
    /\ UNCHANGED <<text_scale, ui>>

\* lib.rs:208-224
RenderSetTextScale ==
    /\ Popped("SetTextScale")
    /\ text_scale' = ScaledTextScale(Front.cmd[2], Front.cmd[3], text_scale, hostWindow)
    /\ font_size' = Front.cmd[4]
    /\ UNCHANGED ui

\* lib.rs:225-228
RenderResetTextScale ==
    /\ Popped("ResetTextScale")
    /\ text_scale' = reset_size(hostWindow)
    /\ UNCHANGED <<font_size, ui>>

\* a render that returns without finding the queue empty
RenderReturnEarly ==
    /\ renderPc = "drain"
    /\ renderPc' = "idle"
    /\ UNCHANGED <<TEXT_RENDER_QUEUE, text_scale, font_size, ui, hostWindow, process, pc, local, calls,
                   track, pushed, evicted, log, tickSnap, tickStart>>
    /\ UNCHANGED initVars

\* lib.rs:167: pop returns None, render returns
RenderReturn ==
    /\ renderPc = "drain"
    /\ TEXT_RENDER_QUEUE = <<>>
    /\ renderPc' = "idle"
    /\ UNCHANGED <<TEXT_RENDER_QUEUE, text_scale, font_size, ui, hostWindow, process, pc, local, calls,
                   track, pushed, evicted, log, tickSnap, tickStart>>
    /\ UNCHANGED initVars

RenderStep ==
    \/ RenderBegin
    \/ RenderText
    \/ RenderSetFontSize
    \/ RenderSetTextScale
    \/ RenderResetTextScale
    \/ RenderReturn

HookStep(t) ==
    \/ DrawTextRenderRequestHook(t)
    \/ SetFontSizeHook(t)
    \/ SetFontSizePush(t)
    \/ SetTextScaleHook(t)
    \/ SetTextScalePush(t)
    \/ ResetTextScaleHook(t)
    \/ ResetTextScalePush(t)
    \/ DrawTextWithSizeHook(t)
    \/ DrawTextWithSizeText(t)

Next ==
    \/ InstallHook
    \/ EnableHook
    \/ SpawnOverlay
    \/ OverlayStart
    \/ HostSetWindow
    \/ \E t \in Threads : HookStep(t)
    \/ RenderStep

Spec == Init /\ [][Next]_vars

(***************************************************************************)
(* For liveness: the pushes are not numbered, so the hooks can be invoked  *)
(* without end, and the render thread, once inside render, keeps taking    *)
(* its next step (it is a running thread).  Nothing obliges the host       *)
(* threads to call the hooked routines or to stop calling them.  The host  *)
(* leaves its window object alone here (the window is absent throughout):  *)
(* every behaviour of LiveSpec is a behaviour of the program.              *)
(***************************************************************************)
LiveInit ==
    /\ InitWith(FALSE)
    /\ hostWindow = NoWindow("none")

LiveNext ==
    \/ InstallHook
    \/ EnableHook
    \/ SpawnOverlay
    \/ OverlayStart
    \/ \E t \in Threads : HookStep(t)
    \/ RenderStep

LiveSpec == LiveInit /\ [][LiveNext]_vars /\ WF_vars(RenderStep)

(***************************************************************************)
(* Panics.  init() sets custom_panic_hook as the panic hook before it does *)
(* anything else (lib.rs:237), and nothing in the crate catches a panic.   *)
(* Each rva_to_va, initialize and enable in init() is followed by          *)
(* .unwrap(), which panics on Err.  A panic inside a hook callback is an   *)
(* event of the environment here: the place that raises it is not chosen.  *)
(* The hook runs on the panicking thread: it shows a modal message box     *)
(* (the other threads go on), logs, and calls std::process::abort.         *)
(***************************************************************************)
InCallback(t) == pc[t] \in { "sfs_push", "sts_push", "rts_push", "dtws_text" }

\* lib.rs:239-329: an unwrap() of init() finds Err
InitFails ==
    /\ process = "running"
    /\ initPc < 5
    /\ initStage \in { "install", "enable" }
    /\ initStage' = "panic"
    /\ UNCHANGED <<TEXT_RENDER_QUEUE, hostWindow, process, pc, local, calls, initPc,
                   overlayPc, track, pushed, evicted>>
    /\ UNCHANGED overlayVars

\* a panic is raised in the callback thread t is entering or is inside
HookPanic(t) ==
    /\ process = "running"
    /\ \/ InCallback(t)
       \/ pc[t] = "idle" /\ Enabled(DRAW_TEXT_RENDER_REQUEST)
    /\ pc' = [pc EXCEPT ![t] = "panic"]
    /\ UNCHANGED <<TEXT_RENDER_QUEUE, hostWindow, process, local, calls,
                   track, pushed, evicted>>
    /\ UNCHANGED overlayVars
    /\ UNCHANGED initVars

\* a panic hook that returns: the unwinding ends in init(), which goes on to
\* its next step
custom_panic_hook_returning ==
    /\ process = "running"
    /\ initStage = "panic" \/ \E t \in Threads : pc[t] = "panic"
    /\ initStage' = "install"
    /\ pc' = [t \in Threads |-> IF pc[t] = "panic" THEN "idle" ELSE pc[t]]
    /\ UNCHANGED <<TEXT_RENDER_QUEUE, hostWindow, process, local, calls, initPc,
                   overlayPc, track, pushed, evicted>>
    /\ UNCHANGED overlayVars

\* logging.rs:24-45, run by a panicking thread: message box, log, abort
custom_panic_hook ==
    /\ process = "running"
    /\ initStage = "panic" \/ \E t \in Threads : pc[t] = "panic"
    /\ process' = "aborted"
    /\ UNCHANGED <<TEXT_RENDER_QUEUE, hostWindow, pc, local, calls,
                   track, pushed, evicted>>
    /\ UNCHANGED overlayVars
    /\ UNCHANGED initVars

FaultInit ==
    /\ InitWith(TRUE)
    /\ hostWindow = NoWindow("none")

\* an aborted process takes no step
FaultNext ==
    /\ process = "running"
    /\ \/ LiveNext
       \/ InitFails
       \/ \E t \in Threads : HookPanic(t)
       \/ custom_panic_hook

FaultSpec == FaultInit /\ [][FaultNext]_vars

(***************************************************************************)
(* For the decoder: the host draws texts, sized and not, from wide strings *)
(* of every shape; nothing else runs.                                      *)
(***************************************************************************)
DecodeInit ==
    /\ InitWith(TRUE)
    /\ hostWindow = NoWindow("none")

DecodeNext ==
    \/ InstallHook
    \/ EnableHook
    \/ \E t \in Threads, a \in WideTextArgs : DrawTextRenderRequestCall(t, a)
    \/ \E t \in Threads, a \in WideTextArgs : DrawTextWithSizeCall(t, a)
    \/ \E t \in Threads : DrawTextWithSizeText(t)

DecodeSpec == DecodeInit /\ [][DecodeNext]_vars

(***************************************************************************)
(* The claims.                                                             *)
(***************************************************************************)
Last(q) == q[Len(q)]
Front0(q) == SubSeq(q, 1, Len(q) - 1)

\* a step that is one force_push
IsPush == pushed' = pushed + 1

(* C1: a push from a hook callback is always possible and always takes
   effect: the pushed command becomes the newest entry; when the queue is
   full exactly one entry, the oldest, leaves it and the others stay in
   order; the queue never holds more than QueueCap entries (whether or not a
   render tick runs). *)
C1_PushEvictsOldest ==
    [][ /\ Len(TEXT_RENDER_QUEUE') <= QueueCap
        /\ \A t \in Threads : pc[t] = "dtws_text" => ENABLED DrawTextWithSizeText(t)
        /\ IsPush =>
             /\ Len(TEXT_RENDER_QUEUE') > 0
             /\ Last(TEXT_RENDER_QUEUE').id = pushed'
             /\ IF Len(TEXT_RENDER_QUEUE) = QueueCap
                THEN /\ Front0(TEXT_RENDER_QUEUE') = Tail(TEXT_RENDER_QUEUE)
                     /\ evicted' = evicted \cup { Head(TEXT_RENDER_QUEUE).id }
                ELSE /\ Front0(TEXT_RENDER_QUEUE') = TEXT_RENDER_QUEUE
                     /\ evicted' = evicted
      ]_vars

\* a push into a full queue has happened before the overlay ever ran
C1_Witness ==
    /\ overlayPc # "running"
    /\ Len(TEXT_RENDER_QUEUE) = QueueCap
    /\ evicted = { 1 }
    /\ Ids(TEXT_RENDER_QUEUE) = 2..(QueueCap + 1)

(* C2: an invocation of the Draw-text-with-size hook is two steps, each one
   force_push: the first enqueues SetFontSize(size read through
   font_size_ptr), the second enqueues Text(decoded text, x, y) for the same
   call and returns; a thread inside the hook changes nothing else. *)
C2_SizedDrawPushesTwo ==
    [][ \A t \in Threads :
          /\ (pc[t] = "idle" /\ pc'[t] = "dtws_text") =>
               /\ IsPush
               /\ \E a \in SizedTextArgs :
                    /\ Last(TEXT_RENDER_QUEUE').cmd = SetFontSizeCmd(a.size)
                    /\ local'[t] = [text_str |-> u16_ptr_to_string(a.text),
                                    x |-> a.x, y |-> a.y, font_size |-> a.size]
               /\ TEXT_RENDER_QUEUE' =
                    force_push(TEXT_RENDER_QUEUE, Last(TEXT_RENDER_QUEUE'))
          /\ (pc[t] = "dtws_text" /\ pc'[t] = "idle") =>
               /\ IsPush
               /\ Last(TEXT_RENDER_QUEUE').cmd =
                    Text(local[t].text_str, local[t].x, local[t].y)
               /\ TEXT_RENDER_QUEUE' =
                    force_push(TEXT_RENDER_QUEUE, Last(TEXT_RENDER_QUEUE'))
          /\ (pc[t] = "dtws_text" /\ pc'[t] = "dtws_text") => local'[t] = local[t]
          /\ (pc[t] = "idle" /\ pc'[t] = "idle") => local'[t] = NoLocal
      ]_vars

\* a sized draw has returned and its two commands are queued, in order
C2_Witness ==
    /\ \A t \in Threads : pc[t] = "idle"
    /\ Len(TEXT_RENDER_QUEUE) = 2
    /\ TEXT_RENDER_QUEUE[1].cmd = SetFontSizeCmd(F(32))
    /\ TEXT_RENDER_QUEUE[2].cmd = Text(EncodingError, F(5), F(5))
    /\ TEXT_RENDER_QUEUE[2].id = TEXT_RENDER_QUEUE[1].id + 1

(* C3: commands are popped in the order in which they arrived at the queue:
   of any two popped commands, the one pushed first was popped first (so the
   two commands of one hook invocation, and any two of one thread, come out
   in push order). *)
C3_PopOrderIsArrivalOrder ==
    \A i, j \in 1..Len(log) : i < j => log[i] < log[j]

\* two commands came out while a sized draw was between its two pushes
C3_Witness ==
    /\ Len(log) >= 2
    /\ \E t \in Threads : pc[t] = "dtws_text"

\* arrival numbers popped by the current (or last) tick
TickLog == { log[k] : k \in (tickStart + 1)..Len(log) }

(* C4: a render tick ends only with the queue drained: when the tick has
   returned, every command that was queued when it began has been processed
   by this tick or was evicted; and whenever the tick processes a command
   pushed after it began, all of those have already been processed by it or
   evicted. *)
C4_TickDrains ==
    /\ renderPc = "idle" => tickSnap \subseteq (TickLog \cup evicted)
    /\ \A k \in (tickStart + 1)..Len(log) :
         log[k] \notin tickSnap =>
           \A s \in tickSnap :
             s \in evicted \/ \E j \in (tickStart + 1)..(k - 1) : log[j] = s

\* a finished tick that began with a full queue, lost one of those entries
\* to a push and processed a command pushed after it began
C4_Witness ==
    /\ renderPc = "idle"
    /\ Cardinality(tickSnap) = QueueCap
    /\ tickSnap \cap evicted # {}
    /\ tickSnap \cap TickLog # {}
    /\ TickLog \ tickSnap # {}

(* C5: every render tick runs to completion: once render has begun, it
   eventually finds the queue empty and returns, also while hook callbacks
   on the host threads keep pushing. *)
C5_TickReturns == (renderPc = "drain") ~> (renderPc = "idle")

\* a <= b on f32
FLe(a, b) == FLt(a, b) \/ (~IsNaN(a) /\ a = b)

Positive(a) == FLt(F(0), a)

\* the larger of two f32 values, b when they are equal
MaxOf(a, b) == IF FLt(a, b) THEN b ELSE a

\* v mod s for a finite v and a finite s > 0: v - floor(v / s) * s
FloorMod(v, s) ==
    IF IsFinite(v) /\ IsFinite(s) /\ s[1] > 0
    THEN LET fl == (v[1] * s[2]) \div (v[2] * s[1])
         IN  Norm(v[1] * s[2] - fl * s[1] * v[2], v[2] * s[2])
    ELSE NaN

\* a step in which render pops a command of this kind
IsPop(kind) ==
    /\ TEXT_RENDER_QUEUE # <<>>
    /\ Head(TEXT_RENDER_QUEUE).cmd[1] = kind
    /\ log' = Append(log, Head(TEXT_RENDER_QUEUE).id)

Popping == Head(TEXT_RENDER_QUEUE).cmd

\* the position of a text window lies on a screen of this size and is the
\* floored modulo of the scaled coordinates
PlacedOnScreen(position, x, y, scale, screen_sz) ==
    /\ FLe(F(0), position[1]) /\ FLt(position[1], screen_sz[1])
    /\ FLe(F(0), position[2]) /\ FLt(position[2], screen_sz[2])
    /\ position[1] = FloorMod(FMul(x, scale[1]), screen_sz[1])
    /\ position[2] = FloorMod(FMul(y, scale[2]), screen_sz[2])

(* C6: whenever render processes a Text(content, x, y) command while the
   screen width and height are positive, the window is placed at a position
   with 0 <= scaled_x < screen_width and 0 <= scaled_y < screen_height, the
   floored modulo of x * text_scale.0 and y * text_scale.1 by the screen
   size, whatever text_scale is at that moment. *)
C6_TextPlacedOnScreen ==
    [][ IsPop("Text") =>
          LET screen_sz == get_screen_size(hostWindow)
          IN  (Positive(screen_sz[1]) /\ Positive(screen_sz[2])) =>
                PlacedOnScreen(ui'.position, Popping[3], Popping[4],
                               text_scale, screen_sz)
      ]_vars

\* C6 holds of the steps in which text_scale is finite
C6_FiniteScaleCase ==
    [][ IsPop("Text") =>
          LET screen_sz == get_screen_size(hostWindow)
          IN  (Positive(screen_sz[1]) /\ Positive(screen_sz[2])
                 /\ IsFinite(text_scale[1]) /\ IsFinite(text_scale[2])) =>
                PlacedOnScreen(ui'.position, Popping[3], Popping[4],
                               text_scale, screen_sz)
      ]_vars

(* C7: processing SetTextScale(width, height, size) while the window width
   and height are positive stores text_scale = (width * max(screen_w /
   window_w, 0.8), height * max(screen_h / window_h, 0.8)), whatever
   text_scale was, and stores font_size = size. *)
C7_SetTextScaleFloorsRatio ==
    [][ IsPop("SetTextScale") =>
          LET screen_sz == get_screen_size(hostWindow)
              window_sz == window_size(hostWindow)
          IN  (Positive(window_sz[1]) /\ Positive(window_sz[2])) =>
                /\ text_scale' =
                     <<FMul(Popping[2], MaxOf(FDiv(screen_sz[1], window_sz[1]), Norm(4, 5))),
                       FMul(Popping[3], MaxOf(FDiv(screen_sz[2], window_sz[2]), Norm(4, 5)))>>
                /\ font_size' = Popping[4]
      ]_vars

\* SetTextScale(2, 0.5, 20) was processed with the window 2560x1080 on a
\* 1920x1080 screen: the ratio 3/4 became 4/5, the ratio 1 was kept
C7_Witness ==
    /\ text_scale = <<Norm(8, 5), Norm(1, 2)>>
    /\ font_size = F(20)

(* C8: processing ResetTextScale stores text_scale = (screen_w / window_w,
   screen_h / window_h) of the geometry read in that step, without the 0.8
   floor and whatever text_scale was, and leaves font_size as it is. *)
C8_ResetTextScaleNoFloor ==
    [][ IsPop("ResetTextScale") =>
          LET screen_sz == get_screen_size(hostWindow)
              window_sz == window_size(hostWindow)
          IN  /\ text_scale' = <<FDiv(screen_sz[1], window_sz[1]),
                                 FDiv(screen_sz[2], window_sz[2])>>
              /\ font_size' = font_size
      ]_vars

\* a reset with the ratio 3/4 stored as it is, after a SetTextScale had set
\* both fields
C8_Witness ==
    /\ text_scale = <<Norm(3, 4), F(1)>>
    /\ font_size = F(20)

(* C9: while the host window object is absent or its lookup fails, the
   screen size and the window size both read as [1920, 1080], render
   inside its loop can always process the next queued command, and every
   command it pops has its effect: ResetTextScale stores text_scale =
   (1, 1), SetTextScale(width, height, size) stores (width, height) and
   size, SetFontSize(size) stores size, and Text builds a text window of
   size 1920x1080 with its text. *)
C9_AbsentWindowFallback ==
    [][ hostWindow.st # "some" =>
          /\ get_screen_size(hostWindow) = <<F(1920), F(1080)>>
          /\ window_size(hostWindow) = <<F(1920), F(1080)>>
          /\ (renderPc = "drain" /\ TEXT_RENDER_QUEUE # <<>>) =>
               ENABLED (RenderText \/ RenderSetFontSize \/ RenderSetTextScale
                          \/ RenderResetTextScale)
          /\ IsPop("SetFontSize") => font_size' = Popping[2]
          /\ IsPop("ResetTextScale") => text_scale' = <<F(1), F(1)>>
          /\ IsPop("SetTextScale") =>
               /\ text_scale' = <<Popping[2], Popping[3]>>
               /\ font_size' = Popping[4]
          /\ IsPop("Text") =>
               /\ ui'.name = "text_window"
               /\ ui'.text = Popping[2]
               /\ ui'.size = <<F(1920), F(1080)>>
      ]_vars

\* the window lookup fails and a reset has stored (1, 1) over the scale of
\* an earlier SetTextScale (which never leaves (1, 1))
C9_Witness ==
    /\ hostWindow.st = "err"
    /\ text_scale = <<F(1), F(1)>>
    /\ font_size = F(20)

(* C10: text_scale starts as (1, 1) and font_size as 24, and a step changes
   either of them only if it is render processing a SetFontSize, a
   SetTextScale or a ResetTextScale command: processing a Text command,
   drawing the placeholder and every step of a hook callback leave both as
   they are. *)
C10_OverlayStateWrittenByRender ==
    /\ text_scale = <<F(1), F(1)>>
    /\ font_size = F(24)
    /\ [][ /\ (text_scale' # text_scale \/ font_size' # font_size) =>
                /\ renderPc = "drain"
                /\ \/ IsPop("SetFontSize")
                   \/ IsPop("SetTextScale")
                   \/ IsPop("ResetTextScale")
                /\ pushed' = pushed
                /\ pc' = pc
           /\ (IsPop("Text") \/ IsPush \/ (renderPc = "idle" /\ renderPc' = "drain")) =>
                (text_scale' = text_scale /\ font_size' = font_size)
         ]_vars

\* a text window was drawn and hooks have pushed while both fields hold
\* values that commands had set
C10_Witness ==
    /\ ui.name = "text_window"
    /\ font_size = F(12)
    /\ text_scale = <<Norm(3, 4), F(1)>>
    /\ pushed = MaxPush

\* the pc of a thread between the original's return and its force_push
Forwarded(routine) ==
    CASE routine = "SetFontSize" -> "sfs_push"
      [] routine = "SetTextScale" -> "sts_push"
      [] routine = "ResetTextScale" -> "rts_push"

\* the command a forwarding callback enqueues for the arguments it was given
CommandOf(routine, args) ==
    CASE routine = "SetFontSize" -> SetFontSizeCmd(args[1])
      [] routine = "SetTextScale" -> SetTextScaleCmd(args[1], args[2], args[3])
      [] routine = "ResetTextScale" -> ResetTextScaleCmd

ForwardedArgs(routine) ==
    CASE routine = "SetFontSize" -> { <<size>> : size \in FontSizes }
      [] routine = "SetTextScale" -> TextScaleArgs
      [] routine = "ResetTextScale" -> { <<>> }

(* C11: a SetFontSize, SetTextScale or ResetTextScale callback first calls
   the original routine, once, with the arguments it received, and pushes
   nothing in that step; its next step pushes the command built from these
   same arguments and returns, having made that one call and no other.  A
   thread that is idle or inside the DrawTextWithSize callback has called
   no original, and a step that pushes a Text command calls none. *)
C11_ForwardThenEnqueue ==
    [][ \A t \in Threads :
          /\ \A routine \in { "SetFontSize", "SetTextScale", "ResetTextScale" } :
               /\ (pc[t] = "idle" /\ pc'[t] = Forwarded(routine)) =>
                    /\ \E args \in ForwardedArgs(routine) :
                         calls'[t] = << <<routine, args>> >>
                    /\ TEXT_RENDER_QUEUE' = TEXT_RENDER_QUEUE
                    /\ pushed' = pushed
               /\ (pc[t] = Forwarded(routine) /\ pc'[t] # pc[t]) =>
                    /\ pc'[t] = "idle"
                    /\ Len(calls[t]) = 1
                    /\ calls[t][1][1] = routine
                    /\ IsPush
                    /\ Last(TEXT_RENDER_QUEUE').cmd = CommandOf(routine, calls[t][1][2])
               /\ (pc[t] = Forwarded(routine) /\ pc'[t] = pc[t]) => calls'[t] = calls[t]
          /\ pc[t] \in { "idle", "dtws_text" } => calls[t] = <<>>
          /\ (IsPush /\ Last(TEXT_RENDER_QUEUE').cmd[1] = "Text") =>
               \A u \in Threads : calls'[u] = calls[u]
      ]_vars

\* a SetFontSize callback has forwarded and enqueued, and another thread is
\* between the original ResetTextScale and its push
C11_Witness ==
    /\ TEXT_RENDER_QUEUE # <<>>
    /\ Last(TEXT_RENDER_QUEUE).cmd = SetFontSizeCmd(F(32))
    /\ \E t \in Threads :
         /\ pc[t] = "rts_push"
         /\ calls[t] = << <<"ResetTextScale", <<>> >> >>

(* C12: when a panic has been raised in a hook callback, the process keeps
   running: no step taken while a host thread is in a panic aborts the
   process. *)
C12_CallbackPanicSwallowed ==
    [][ (\E t \in Threads : pc[t] = "panic") => process' = "running" ]_vars

(* C13: whenever one of the five detours is enabled, all five are
   installed. *)
C13_AllInstalledBeforeAnyEnabled ==
    \A h1, h2 \in DRAW_TEXT_RENDER_REQUEST..DRAW_TEXT_WITH_SIZE :
        Enabled(h1) => Installed(h2)

(* C14: a detour is installed or enabled, and a command is pushed, only
   after wait_for_system_init has returned. *)
C14_HooksAfterSystemInit ==
    (Installed(DRAW_TEXT_RENDER_REQUEST) \/ pushed > 0) => overlayPc = "running"

(* C15: once an unwrap() of init() has panicked, init() never goes on: the
   number of enabled detours and the installed detours stay as they are,
   the overlay thread is not spawned and render never runs; the only step
   left to the init thread is the end of custom_panic_hook, which is always
   possible and aborts the process; an aborted process takes no step.  The
   panic leaves fewer than five detours enabled. *)
C15_InitFailureIsFatal ==
    [][ /\ (initStage # "panic" /\ initStage' = "panic") =>
             /\ initPc' = initPc
             /\ overlayPc' = "unspawned"
        /\ initStage = "panic" =>
             /\ initPc < 5
             /\ initPc' = initPc
             /\ initStage' = "panic"
             /\ overlayPc = "unspawned" /\ overlayPc' = "unspawned"
             /\ renderPc = "idle" /\ renderPc' = "idle"
             /\ process = "running" => ENABLED custom_panic_hook
        /\ process = "running"
      ]_vars

\* the third detour failed after the first two had been in use, and the
\* process was aborted
C15_Witness ==
    /\ initStage = "panic"
    /\ initPc = SET_FONT_SIZE
    /\ pushed > 0
    /\ \A t \in Threads : pc[t] # "panic"
    /\ process = "aborted"

\* the code units before the first zero of a buffer
UnitsOf(b) ==
    LET zero == CHOOSE i \in 1..Len(b) : b[i] = 0 /\ \A j \in 1..(i - 1) : b[j] # 0
    IN  SubSeq(b, 1, zero - 1)

\* well-formed UTF-16: surrogates come in pairs, a high one then a low one
WellFormed(u) ==
    \A i \in 1..Len(u) :
        /\ IsHighSurrogate(u[i]) => (i < Len(u) /\ IsLowSurrogate(u[i + 1]))
        /\ IsLowSurrogate(u[i]) => (i > 1 /\ IsHighSurrogate(u[i - 1]))

\* the characters of well-formed u: one per code unit that is not the second
\* half of a pair
CharsOf(u) ==
    LET starts == { i \in 1..Len(u) : ~IsLowSurrogate(u[i]) }
        nth(k) == CHOOSE i \in starts : Cardinality({ j \in starts : j < i }) = k - 1
        char(i) == IF IsHighSurrogate(u[i])
                   THEN 65536 + (u[i] - 55296) * 1024 + (u[i + 1] - 56320)
                   ELSE u[i]
    IN  [k \in 1..Cardinality(starts) |-> char(nth(k))]

DecodedText(b) ==
    IF WellFormed(UnitsOf(b)) THEN CharsOf(UnitsOf(b)) ELSE EncodingError

(* C16: for every wide string, a step that is the DrawTextRenderRequest
   callback called with it pushes Text carrying the characters of the code
   units before the first zero when these are well-formed UTF-16, and
   carrying "?EncodingError?" when they are not; a step that is the
   DrawTextWithSize callback called with it keeps that same text for its
   second push, and that push, always possible, carries it. *)
C16_DecoderSentinel ==
    [][ \A t \in Threads :
          /\ \A a \in WideTextArgs :
               /\ (IsPush /\ pc' = pc /\ DrawTextRenderRequestCall(t, a)) =>
                    Last(TEXT_RENDER_QUEUE').cmd = Text(DecodedText(a.text), a.x, a.y)
               /\ (pc'[t] = "dtws_text" /\ DrawTextWithSizeCall(t, a)) =>
                    /\ local'[t].text_str = DecodedText(a.text)
                    /\ pc'[t] = "dtws_text"
          /\ pc[t] = "dtws_text" => ENABLED DrawTextWithSizeText(t)
          /\ (pc[t] = "dtws_text" /\ pc'[t] = "idle") =>
               Last(TEXT_RENDER_QUEUE').cmd =
                   Text(local[t].text_str, local[t].x, local[t].y)
      ]_vars

\* the queue holds the sentinel, pushed for a string with an unpaired
\* surrogate, and after it the text of a string that holds a pair
C16_Witness ==
    /\ Len(TEXT_RENDER_QUEUE) = 2
    /\ TEXT_RENDER_QUEUE[1].cmd = Text(EncodingError, F(5), F(5))
    /\ TEXT_RENDER_QUEUE[2].cmd = Text(<<65536, 65>>, F(5), F(5))

(* C17: when render pops the Text command of a DrawTextWithSize call,
   font_size is the size that call pushed in its SetFontSize command. *)
C17_SizedTextDrawnAtItsSize ==
    [][ (IsPop("Text") /\ Head(TEXT_RENDER_QUEUE).sized # NoSize) =>
            font_size = Head(TEXT_RENDER_QUEUE).sized
      ]_vars

(* C18: render can begin whenever the overlay runs and render is not
   running, whatever the queue holds; its first step builds the placeholder
   window "_" of size 1x1 and pops nothing; a command is popped only inside
   render, so after that step.  As long as a tick has popped nothing, the
   placeholder is the only window built and text_scale and font_size are as
   they were; a tick that returns without a pop found the queue empty and
   leaves all this so. *)
C18_PlaceholderFirst ==
    [][ /\ (overlayPc = "running" /\ renderPc = "idle") => ENABLED RenderBegin
        /\ (renderPc = "idle" /\ renderPc' = "drain") =>
             /\ ui' = Placeholder
             /\ TEXT_RENDER_QUEUE' = TEXT_RENDER_QUEUE
             /\ log' = log
             /\ tickStart' = Len(log)
        /\ log' # log => renderPc = "drain"
        /\ (renderPc' = "drain" /\ Len(log') = tickStart') =>
             /\ ui' = Placeholder
             /\ text_scale' = text_scale
             /\ font_size' = font_size
        /\ (renderPc = "drain" /\ renderPc' = "idle" /\ Len(log) = tickStart) =>
             /\ TEXT_RENDER_QUEUE = <<>>
             /\ ui' = Placeholder
             /\ text_scale' = text_scale
             /\ font_size' = font_size
      ]_vars

\* nothing was ever pushed, and a tick has come and gone
C18_Witness ==
    /\ overlayPc = "running"
    /\ renderPc = "idle"
    /\ ui = Placeholder
    /\ pushed = 0
    /\ TEXT_RENDER_QUEUE = <<>>
    /\ text_scale = new.text_scale
    /\ font_size = new.font_size

\* the arrival numbers of the commands popped so far
PoppedIds == { log[i] : i \in 1..Len(log) }

\* every command pushed is in exactly one place: popped once, evicted, or
\* queued once
Accounted ==
    /\ pushed = Len(log) + Cardinality(evicted) + Len(TEXT_RENDER_QUEUE)
    /\ Cardinality(PoppedIds) = Len(log)
    /\ Cardinality(Ids(TEXT_RENDER_QUEUE)) = Len(TEXT_RENDER_QUEUE)
    /\ PoppedIds \cup evicted \cup Ids(TEXT_RENDER_QUEUE) = 1..pushed
    /\ PoppedIds \cap evicted = {}
    /\ PoppedIds \cap Ids(TEXT_RENDER_QUEUE) = {}
    /\ evicted \cap Ids(TEXT_RENDER_QUEUE) = {}

(* C19: at every moment each pushed command is in exactly one place: it was
   popped by render, once, or it was evicted, or it is in the queue, once;
   so pushed = popped + evicted + queued.  A command leaves the queue
   without being popped only in a push into a queue that holds QueueCap
   entries, and a pop loses none of the other entries. *)
C19_NoLossNoDuplication ==
    /\ []Accounted
    /\ [][ /\ evicted' # evicted =>
                /\ IsPush
                /\ Len(TEXT_RENDER_QUEUE) = QueueCap
           /\ log' # log =>
                /\ Len(log') = Len(log) + 1
                /\ Ids(TEXT_RENDER_QUEUE') = Ids(TEXT_RENDER_QUEUE) \ { Last(log') }
                /\ evicted' = evicted
         ]_vars

\* of three commands one was evicted, one popped, and one is queued
C19_Witness ==
    /\ pushed = QueueCap + 1
    /\ Cardinality(evicted) = 1
    /\ Len(log) = 1
    /\ Len(TEXT_RENDER_QUEUE) = 1

\* the newest n arrival numbers, oldest first
Newest(n) == [i \in 1..n |-> pushed - n + i]

(* C20: callbacks push while the overlay is not yet running (nothing pops
   then), and the queue then holds exactly the newest min(pushed, QueueCap)
   commands in arrival order.  The step that starts the overlay leaves the
   queue as it is and sets text_scale = (1, 1) and font_size = 24; until
   the first pop these stay so, and the first pop takes the oldest queued
   command.  The first tick returns having popped, in arrival order, every
   command that was queued when it began and not evicted since. *)
C20_BacklogKeptForFirstTick ==
    [][ /\ overlayPc # "running" =>
             /\ log = <<>> /\ log' = log
             /\ renderPc = "idle"
        /\ (overlayPc # "running" /\ overlayPc' = "running") =>
             /\ TEXT_RENDER_QUEUE' = TEXT_RENDER_QUEUE
             /\ evicted' = evicted
        /\ log = <<>> =>
             /\ Len(TEXT_RENDER_QUEUE) = IF pushed < QueueCap THEN pushed ELSE QueueCap
             /\ [i \in 1..Len(TEXT_RENDER_QUEUE) |-> TEXT_RENDER_QUEUE[i].id]
                  = Newest(Len(TEXT_RENDER_QUEUE))
        /\ (overlayPc' = "running" /\ log' = <<>>) =>
             /\ text_scale' = new.text_scale
             /\ font_size' = new.font_size
        /\ (log = <<>> /\ log' # log) =>
             /\ log' = <<Head(TEXT_RENDER_QUEUE).id>>
             /\ IsPop("SetFontSize") => font_size' = Popping[2]
             /\ IsPop("SetTextScale") =>
                  /\ font_size' = Popping[4]
                  /\ text_scale' = ScaledTextScale(Popping[2], Popping[3],
                                                   new.text_scale, hostWindow)
             /\ IsPop("ResetTextScale") => text_scale' = reset_size(hostWindow)
        /\ (tickStart = 0 /\ renderPc = "drain" /\ renderPc' = "idle") =>
             /\ tickSnap \subseteq PoppedIds \cup evicted
             /\ \A i, j \in 1..Len(log) : i < j => log[i] < log[j]
      ]_vars

\* three commands were pushed and the oldest evicted before any tick; the
\* first tick found the other two, popped them and set a font size
C20_Witness ==
    /\ overlayPc = "running"
    /\ renderPc = "idle"
    /\ tickStart = 0
    /\ pushed = QueueCap + 1
    /\ evicted = { 1 }
    /\ tickSnap = 2..(QueueCap + 1)
    /\ Len(log) = QueueCap
    /\ font_size # new.font_size

====
